---- MODULE Spec2Model ----
(***************************************************************************)
(* A model of the extension manager's protocol helpers and web-view bridge *)
(*   src/freecad/extman/protocol/flags.py   the predefined-flags database   *)
(*   src/freecad/extman/protocol/http.py    the urllib wrapper              *)
(*   src/freecad/extman/webview.py          interceptor and scheme handler  *)
(* Python strings are modelled as sequences of one-character strings, so    *)
(* that lower(), format(), endswith(), encode() and the regular expression  *)
(* are computed character by character.                                     *)
(***************************************************************************)
EXTENDS Integers, Sequences, FiniteSets, TLC

VARIABLES
    json,       \* flags.py: the parsed content of resources/data/flags.json
    cached,     \* flags.py: whether lru_cache holds get_flags_database's result
    db,         \* flags.py: the cached dict, key -> reference of a flags dict
    heap,       \* flags.py: the dict objects, by reference (a sequence)
    pkgs,       \* flags.py: the package objects the caller has created
    last,       \* flags.py: the last call, with what it saw and returned
    nops,       \* flags.py: the number of operations performed so far
    prefs,      \* http.py: the Addons preferences read by getProxyConf
    ssl_ctx,    \* http.py: the module's SSL context, or None
    request_initialized,  \* http.py: the module's flag of that name
    call,       \* http.py: the httpGet or httpDownload call in progress
    icpt,       \* webview.py: the last interceptRequest call and what it did
    req         \* webview.py: the request handed to requestStarted, and its fate

flagVars == <<json, cached, db, heap, pkgs, last, nops>>
httpVars == <<prefs, ssl_ctx, request_initialized, call>>
webVars == <<icpt, req>>
vars == <<flagVars, httpVars, webVars>>

\* Python's None, where a reference to a dict object may stand: references to
\* dict objects are the positions 1, 2, ... of the heap
NoneRef == 0

(***************************************************************************)
(* Strings                                                                 *)
(***************************************************************************)

\* The printable ASCII characters in code order, from code 32 (space) to code 126
\* (the grave accent, code 96, is written by its code point)
AsciiChars ==
    <<" ", "!", "\"", "#", "$", "%", "&", "'", "(", ")", "*", "+",
       ",", "-", ".", "/", "0", "1", "2", "3", "4", "5", "6", "7",
       "8", "9", ":", ";", "<", "=", ">", "?", "@", "A", "B", "C",
       "D", "E", "F", "G", "H", "I", "J", "K", "L", "M", "N", "O",
       "P", "Q", "R", "S", "T", "U", "V", "W", "X", "Y", "Z", "[",
       "\\", "]", "^", "_", "U+0060", "a", "b", "c", "d", "e", "f", "g",
       "h", "i", "j", "k", "l", "m", "n", "o", "p", "q", "r", "s",
       "t", "u", "v", "w", "x", "y", "z", "{", "|", "}", "~">>

\* The code of the first character of AsciiChars
AsciiBase == 32

\* A character outside ASCII: U+00E9, a lower-case letter, two bytes in UTF-8
EAcute == "U+00E9"

\* The position of each character of AsciiChars
AsciiIndex ==
    [c \in {AsciiChars[i] : i \in 1..Len(AsciiChars)} |->
        CHOOSE i \in 1..Len(AsciiChars) : AsciiChars[i] = c]

\* ord(c): the code point of a character
Ord(c) ==
    IF c = "\n" THEN 10
    ELSE IF c = EAcute THEN 233
    ELSE AsciiIndex[c] + AsciiBase - 1

\* chr(n) for a code of a printable ASCII character
Chr(n) == AsciiChars[n - AsciiBase + 1]

\* str.lower() on one character: the letters A-Z map to a-z
LowerChar(c) == IF Ord(c) >= 65 /\ Ord(c) <= 90 THEN Chr(Ord(c) + 32) ELSE c

\* str.lower()
Lower(s) == [i \in 1..Len(s) |-> LowerChar(s[i])]

\* str.endswith(suffix)
EndsWith(s, suffix) ==
    /\ Len(suffix) <= Len(s)
    /\ SubSeq(s, Len(s) - Len(suffix) + 1, Len(s)) = suffix

(***************************************************************************)
(* flags.py                                                                *)
(***************************************************************************)

\* The characters of the type names that occur
TypeChars(t) ==
    CASE t = "Mod" -> <<"M", "o", "d">>
      [] t = "Macro" -> <<"M", "a", "c", "r", "o">>
      [] t = "Workbench" -> <<"W", "o", "r", "k", "b", "e", "n", "c", "h">>

\* "{0}:{1}".format(mtype, name.lower())
FlagKey(mtype, name) == TypeChars(mtype) \o <<":">> \o Lower(name)

\* The order in which data.items() yields the flags
FlagOrder == <<"f1", "f2">>

FlagIds == {FlagOrder[i] : i \in 1..Len(FlagOrder)}

\* itertools.chain(((m, 'Mod') for m in mods), ((m, 'Macro') for m in macros))
ChainItems(flag) ==
    [i \in 1..Len(flag.Mod) |-> <<flag.Mod[i], "Mod">>]
    \o [i \in 1..Len(flag.Macro) |-> <<flag.Macro[i], "Macro">>]

\* dict.get(key, default) on the database: the reference stored, or the default
DictGet(d, key, default) == IF key \in DOMAIN d THEN d[key] ELSE default

\* d[k] = v on a dict object
DictSet(d, k, v) == [x \in DOMAIN d \cup {k} |-> IF x = k THEN v ELSE d[x]]

\* d.update(e)
DictUpdate(d, e) ==
    [x \in DOMAIN d \cup DOMAIN e |-> IF x \in DOMAIN e THEN e[x] ELSE d[x]]

\* The [] that the lookup of line 55 gives as its default: no dict of the heap
EmptyListRef == -1

\* A variant whose mod is a fresh {} on every pass, whatever db holds for the key
AddItemFresh(st, flagId, item) ==
    LET key == FlagKey(item[2], item[1])
        ref == Len(st.heap) + 1
        hp == Append(st.heap, [x \in {flagId} |-> TRUE])
    IN  [db |-> DictSet(st.db, key, ref), heap |-> hp]

\* One pass of the inner loop body: key, mod = db.get(key, {}), mod[flagId] = True,
\* db[key] = mod.  st is [db, heap]; a fresh {} is a new object of the heap.
AddItem(st, flagId, item) ==
    LET key == FlagKey(item[2], item[1])
        isNew == key \notin DOMAIN st.db
        ref == IF isNew THEN Len(st.heap) + 1 ELSE st.db[key]
        hp == IF isNew THEN Append(st.heap, <<>>) ELSE st.heap
        hp2 == [hp EXCEPT ![ref] = DictSet(hp[ref], flagId, TRUE)]
    IN  [db |-> DictSet(st.db, key, ref), heap |-> hp2]

RECURSIVE AddItems(_, _, _, _)
\* for name, mtype in items: ...
AddItems(st, flagId, items, i) ==
    IF i > Len(items) THEN st
    ELSE AddItems(AddItem(st, flagId, items[i]), flagId, items, i + 1)

RECURSIVE AddFlags(_, _, _)
\* for flagId, flag in data.items(): ...
AddFlags(st, data, i) ==
    IF i > Len(FlagOrder) THEN st
    ELSE AddFlags(AddItems(st, FlagOrder[i], ChainItems(data[FlagOrder[i]]), 1),
                  data, i + 1)

\* The body of get_flags_database: db = {}, the loops of lines 39-47, return db
LoadFlagsDatabase(data, hp) == AddFlags([db |-> <<>>, heap |-> hp], data, 1)

\* get_flags_database() under functools.lru_cache(): the body runs on the first call
\* and the same dict object is returned on every later one
GetFlagsDatabase ==
    IF cached THEN [db |-> db, heap |-> heap] ELSE LoadFlagsDatabase(json, heap)

\* Python's truth value of pkg.flags or of the looked-up flags
Truthy(hp, ref) == ref # NoneRef /\ ref # EmptyListRef /\ DOMAIN hp[ref] # {}

\* lines 52-54: package_type = pkg.type; 'Workbench' is looked up as 'Mod'
ApplyType(t) == IF t = "Workbench" THEN "Mod" ELSE t

\* A variant that binds pkg.flags to the looked-up dict whatever pkg.flags held
ApplyFlagsReplace(hp, pkg, flags) ==
    IF Truthy(hp, flags)
    THEN [heap |-> hp, pkg |-> [pkg EXCEPT !.flags = flags]]
    ELSE [heap |-> hp, pkg |-> pkg]

\* lines 56-60: merge into pkg.flags, or bind pkg.flags to the looked-up dict
ApplyFlags(hp, pkg, flags) ==
    IF Truthy(hp, flags)
    THEN IF Truthy(hp, pkg.flags)
         THEN [heap |-> [hp EXCEPT ![pkg.flags] = DictUpdate(hp[pkg.flags], hp[flags])],
               pkg |-> pkg]
         ELSE [heap |-> hp, pkg |-> [pkg EXCEPT !.flags = flags]]
    ELSE [heap |-> hp, pkg |-> pkg]

\* apply_predefined_flags(pkg), lines 52-61: the heap and the package after the call,
\* the database it used, the key it looked up and the object it returns
ApplyPredefinedFlags(p) ==
    LET package_type == ApplyType(pkgs[p].type)
        got == GetFlagsDatabase
        key == FlagKey(package_type, pkgs[p].name)
        flags == DictGet(got.db, key, EmptyListRef)
        res == ApplyFlags(got.heap, pkgs[p], flags)
    IN  [db |-> got.db, heap |-> res.heap, pkg |-> res.pkg, key |-> key,
         flags |-> flags, before |-> got.heap, ret |-> p]

\* The package objects, the types and the names the callers use
Pkgs == {"p1", "p2"}
PkgTypes == {"Workbench", "Mod", "Macro"}
Names == {<<"A", "b">>, <<"a", "b">>, <<"b">>}

\* The flag keys a caller sets on a package's own flags
CallerFlags == {"x"}

\* The longest list of names under one type of one flag of flags.json
MaxList == 1

\* The number of operations in one run of the callers
MaxOps == 5

RECURSIVE ListsUpTo(_, _)
ListsUpTo(S, n) ==
    IF n = 0 THEN {<<>>}
    ELSE LET shorter == ListsUpTo(S, n - 1)
         IN  shorter \cup {Append(l, x) : l \in shorter, x \in S}

\* The documents flags.json may hold: every flag with a list of Mod names and a list
\* of Macro names (an absent list reads as [], line 40-41)
JsonInputs == [FlagIds -> [Mod : ListsUpTo(Names, MaxList), Macro : ListsUpTo(Names, MaxList)]]

\* The document of the runs that exercise the packages: Mod:ab carries f1 and f2,
\* Mod:b carries f2, Macro:b carries f1, Macro:ab has no entry
JsonSamples ==
    { [f1 |-> [Mod |-> << <<"A", "b">> >>, Macro |-> << <<"b">> >>],
       f2 |-> [Mod |-> << <<"a", "b">>, <<"b">> >>, Macro |-> <<>>]] }

NoCall == [op |-> "none", p |-> "none", key |-> <<>>, flags |-> NoneRef,
           flagsBefore |-> NoneRef, heapBefore |-> <<>>, ret |-> "none"]

FlagsIdle ==
    /\ json = [f \in FlagIds |-> [Mod |-> <<>>, Macro |-> <<>>]]
    /\ cached = FALSE
    /\ db = <<>>
    /\ heap = <<>>
    /\ pkgs = <<>>
    /\ last = NoCall
    /\ nops = 0

\* The module as imported: nothing cached, no package created yet
InitFlags(docs) ==
    /\ json \in docs
    /\ cached = FALSE
    /\ db = <<>>
    /\ heap = <<>>
    /\ pkgs = <<>>
    /\ last = NoCall
    /\ nops = 0

\* A caller calls get_flags_database()
GetFlagsDatabaseCall ==
    /\ nops < MaxOps
    /\ LET got == GetFlagsDatabase
       IN  /\ db' = got.db
           /\ heap' = got.heap
    /\ cached' = TRUE
    /\ last' = [NoCall EXCEPT !.op = "get_flags_database", !.heapBefore = heap]
    /\ nops' = nops + 1
    /\ UNCHANGED <<json, pkgs, httpVars, webVars>>

\* The order in which the package objects come to be
PkgBefore(q, p) == q = "p1" /\ p = "p2"

\* A caller creates a package object: flags is None, or a dict of the caller's own
NewPackage(p, t, n, own, d) ==
    /\ nops < MaxOps
    /\ p \notin DOMAIN pkgs
    /\ \A q \in Pkgs : q \in DOMAIN pkgs \/ ~PkgBefore(q, p)
    /\ LET ref == IF own THEN Len(heap) + 1 ELSE NoneRef
           pkg == [type |-> t, name |-> n, flags |-> ref]
       IN  /\ pkgs' = [x \in DOMAIN pkgs \cup {p} |-> IF x = p THEN pkg ELSE pkgs[x]]
           /\ heap' = IF own THEN Append(heap, d) ELSE heap
    /\ last' = [NoCall EXCEPT !.op = "new", !.p = p]
    /\ nops' = nops + 1
    /\ UNCHANGED <<json, cached, db, httpVars, webVars>>

\* A caller calls apply_predefined_flags(pkg)
ApplyCall(p) ==
    /\ nops < MaxOps
    /\ p \in DOMAIN pkgs
    /\ LET r == ApplyPredefinedFlags(p)
       IN  /\ db' = r.db
           /\ heap' = r.heap
           /\ pkgs' = [pkgs EXCEPT ![p] = r.pkg]
           /\ last' = [op |-> "apply", p |-> p, key |-> r.key, flags |-> r.flags,
                       flagsBefore |-> pkgs[p].flags, heapBefore |-> r.before,
                       ret |-> r.ret]
    /\ cached' = TRUE
    /\ nops' = nops + 1
    /\ UNCHANGED <<json, httpVars, webVars>>

\* A caller adds a flag to a package's flags: pkg.flags[k] = True
CallerAddFlag(p, k) ==
    /\ nops < MaxOps
    /\ p \in DOMAIN pkgs
    /\ pkgs[p].flags # NoneRef
    /\ heap' = [heap EXCEPT ![pkgs[p].flags] = DictSet(@, k, TRUE)]
    /\ last' = [NoCall EXCEPT !.op = "add", !.p = p]
    /\ nops' = nops + 1
    /\ UNCHANGED <<json, cached, db, pkgs, httpVars, webVars>>

\* A caller changes a package's name or its type
CallerSetKey(p, t, n) ==
    /\ nops < MaxOps
    /\ p \in DOMAIN pkgs
    /\ (t = pkgs[p].type) # (n = pkgs[p].name)
    /\ pkgs' = [pkgs EXCEPT ![p].type = t, ![p].name = n]
    /\ last' = [NoCall EXCEPT !.op = "set", !.p = p]
    /\ nops' = nops + 1
    /\ UNCHANGED <<json, cached, db, heap, httpVars, webVars>>

(***************************************************************************)
(* http.py                                                                 *)
(***************************************************************************)

\* The blocks of bytes a stream's read(block) may return: "a", a line feed, U+00E9
\* and U+20AC in UTF-8, and a lone lead byte, which is not valid UTF-8
Blocks == {<<97>>, <<10>>, <<195, 169>>, <<226, 130, 172>>, <<195>>}

\* The number of non-empty blocks one stream delivers
MaxBlocks == 2

\* A continuation byte of UTF-8
IsContinuation(x) == x >= 128 /\ x <= 191

\* The number of bytes of the UTF-8 sequence that b starts with, 0 when b starts
\* with none: a byte that is no lead byte, a sequence cut short, an overlong form, a
\* surrogate or a code point above U+10FFFF
Utf8Length(b) ==
    IF b[1] < 128 THEN 1
    ELSE IF /\ b[1] >= 194 /\ b[1] <= 223
            /\ Len(b) >= 2 /\ IsContinuation(b[2])
         THEN 2
    ELSE IF /\ b[1] >= 224 /\ b[1] <= 239
            /\ Len(b) >= 3 /\ IsContinuation(b[2]) /\ IsContinuation(b[3])
            /\ (b[1] = 224 => b[2] >= 160)
            /\ (b[1] = 237 => b[2] <= 159)
         THEN 3
    ELSE IF /\ b[1] >= 240 /\ b[1] <= 244
            /\ Len(b) >= 4 /\ IsContinuation(b[2]) /\ IsContinuation(b[3])
            /\ IsContinuation(b[4])
            /\ (b[1] = 240 => b[2] >= 144)
            /\ (b[1] = 244 => b[2] <= 143)
         THEN 4
    ELSE 0

\* The code point that the first n bytes of b encode
CodePoint(b, n) ==
    IF n = 1 THEN b[1]
    ELSE IF n = 2 THEN (b[1] - 192) * 64 + (b[2] - 128)
    ELSE IF n = 3 THEN (b[1] - 224) * 4096 + (b[2] - 128) * 64 + (b[3] - 128)
    ELSE (b[1] - 240) * 262144 + (b[2] - 128) * 4096 + (b[3] - 128) * 64 + (b[4] - 128)

RECURSIVE Utf8Decode(_)
\* bytes.decode('utf-8') in its default strict mode: the characters of the string,
\* each as its code point, or an error
Utf8Decode(b) ==
    IF b = <<>> THEN [ok |-> TRUE, chars |-> <<>>]
    ELSE LET n == Utf8Length(b)
         IN  IF n = 0 THEN [ok |-> FALSE, chars |-> <<>>]
             ELSE LET rest == Utf8Decode(SubSeq(b, n + 1, Len(b)))
                  IN  IF rest.ok
                      THEN [ok |-> TRUE, chars |-> <<CodePoint(b, n)>> \o rest.chars]
                      ELSE [ok |-> FALSE, chars |-> <<>>]

\* Python values of the kinds the two functions hold and return
PyNone == [kind |-> "None", val |-> <<>>]
PyStr(chars) == [kind |-> "str", val |-> chars]
PyList(items) == [kind |-> "list", val |-> items]
PyBool(b) == [kind |-> "bool", val |-> <<b>>]

\* getProxyConf, lines 47-58: "ok" with a ProxyHandler built, or the exception of
\* line 58 reading a local variable that no branch has bound
GetProxyConf ==
    IF prefs.NoProxyCheck THEN "ok"
    ELSE IF prefs.SystemProxyCheck THEN "ok"
    ELSE IF prefs.UserProxyCheck THEN "ok"
    ELSE "UnboundLocalError"

\* getSslHandler, lines 60-64: an HTTPSHandler, or a dict when there is no context
GetSslHandler == IF ssl_ctx # "None" THEN "HTTPSHandler" ELSE "dict"

\* urllibInit, lines 66-73: "ok", or the exception that leaves it. build_opener
\* accepts handler classes and instances only and raises TypeError on a dict.
UrllibInit ==
    IF request_initialized THEN "ok"
    ELSE IF GetProxyConf # "ok" THEN GetProxyConf
    ELSE IF GetSslHandler = "dict" THEN "TypeError"
    ELSE "ok"

\* No call yet. In a call, received are the blocks read, buffered the bytes that
\* localFile.write has taken and written the bytes that have reached the local file;
\* the data of httpGet(url, decode=True) is a string, held as its code points.
NoHttpCall ==
    [fn |-> "none", url |-> <<>>, pc |-> "idle", decode |-> FALSE, data |-> PyNone, opens |-> 0,
     nread |-> 0, received |-> <<>>, buffered |-> <<>>, written |-> <<>>, logs |-> <<>>,
     failed |-> "none", outcome |-> "none", ret |-> PyNone]

HttpIdle ==
    /\ prefs = [NoProxyCheck |-> TRUE, SystemProxyCheck |-> FALSE, UserProxyCheck |-> FALSE]
    /\ ssl_ctx = "ctx"
    /\ request_initialized = FALSE
    /\ call = NoHttpCall

\* The module as imported (lines 30-45) under the user's preferences
InitHttp ==
    /\ prefs \in [NoProxyCheck : BOOLEAN, SystemProxyCheck : BOOLEAN, UserProxyCheck : BOOLEAN]
    /\ ssl_ctx \in {"ctx", "None"}
    /\ request_initialized = FALSE
    /\ call = NoHttpCall

\* What the function returns when it leaves the try statement without a return
\* of its own: data (line 98), False (line 116)
FallThrough(c) == IF c.fn = "httpGet" THEN c.data ELSE PyBool(FALSE)

\* A variant of the except clauses that opens the URL again
ExceptRetry(c, what, ex) ==
    [c EXCEPT !.failed = what, !.logs = Append(@, ex), !.pc = "open"]

\* The except clauses, lines 93-96 and 111-114, and the return after them: the
\* failure is logged (the reason of a URLError, the traceback of anything else)
Except(c, what, ex) ==
    [c EXCEPT !.failed = what,
              !.logs = Append(@, IF ex = "URLError" THEN "reason" ELSE "traceback"),
              !.pc = "done", !.outcome = "returned", !.ret = FallThrough(c)]

\* The URL of a call and the strings made of it are sequences of code points, all
\* of them ASCII. request.Request(url, ...) (lines 81, 103) is urllib's, as of
\* Python 3.11; the definitions down to RequestAccepts follow its steps.
Codes(chars) == [i \in DOMAIN chars |-> Ord(chars[i])]

\* The elements of a sequence
Elems(s) == {s[i] : i \in DOMAIN s}

\* str.find: the first position in s of a code point of set, 0 when there is none
Find(s, set) ==
    IF \E i \in DOMAIN s : s[i] \in set
    THEN CHOOSE i \in DOMAIN s : s[i] \in set /\ \A j \in 1..(i - 1) : s[j] \notin set
    ELSE 0

\* str.rfind: the last position in s of a code point of set, 0 when there is none
RFind(s, set) ==
    IF \E i \in DOMAIN s : s[i] \in set
    THEN CHOOSE i \in DOMAIN s : s[i] \in set /\ \A j \in (i + 1)..Len(s) : s[j] \notin set
    ELSE 0

RECURSIVE LStrip(_, _)
\* str.lstrip(set)
LStrip(s, set) == IF s # <<>> /\ s[1] \in set THEN LStrip(Tail(s), set) ELSE s

RECURSIVE RStrip(_, _)
\* str.rstrip(set)
RStrip(s, set) ==
    IF s # <<>> /\ s[Len(s)] \in set THEN RStrip(SubSeq(s, 1, Len(s) - 1), set) ELSE s

\* The ASCII code points that str.strip() removes
WhiteSpace == (9..13) \cup (28..32)

\* str.strip()
Strip(s) == RStrip(LStrip(s, WhiteSpace), WhiteSpace)

RECURSIVE Split(_, _)
\* str.split(c)
Split(s, c) ==
    LET i == Find(s, {c})
    IN  IF i = 0 THEN <<s>>
        ELSE <<SubSeq(s, 1, i - 1)>> \o Split(SubSeq(s, i + 1, Len(s)), c)

\* urllib.parse.unwrap: '<URL:scheme://host/path>' becomes 'scheme://host/path'
Unwrap(url) ==
    LET a == Strip(url)
        b == IF a # <<>> /\ a[1] = 60 /\ a[Len(a)] = 62
             THEN Strip(SubSeq(a, 2, Len(a) - 1))
             ELSE a
    IN  IF Len(b) >= 4 /\ SubSeq(b, 1, 4) = <<85, 82, 76, 58>>
        THEN Strip(SubSeq(b, 5, Len(b)))
        ELSE b

\* urllib.parse._splittag: the URL is cut at its last '#'; the fragment is what
\* follows (None and '' are both the empty fragment here)
SplitTag(url) ==
    LET i == RFind(url, {35})
    IN  IF i = 0 THEN [url |-> url, fragment |-> <<>>]
        ELSE [url |-> SubSeq(url, 1, i - 1), fragment |-> SubSeq(url, i + 1, Len(url))]

\* Request.full_url: the URL with its fragment, when it has one
FullUrl(r) == IF r.fragment # <<>> THEN r.url \o <<35>> \o r.fragment ELSE r.url

\* urllib.parse._splittype finds a type: the pattern ([^/:]+):(.*) matches at the
\* start, that is, the first ':' or '/' of the URL is a ':' and is not its first
\* character. Without a type Request._parse raises ValueError ("unknown url type").
HasType(url) ==
    LET i == Find(url, {47, 58})
    IN  i >= 2 /\ url[i] = 58

IsDigit(x) == x >= 48 /\ x <= 57

IsHexDigit(x) == IsDigit(x) \/ (x >= 65 /\ x <= 70) \/ (x >= 97 /\ x <= 102)

IsAlpha(x) == (x >= 65 /\ x <= 90) \/ (x >= 97 /\ x <= 122)

\* urllib.parse.scheme_chars: letters, digits, '+', '-', '.'
IsSchemeChar(x) == IsAlpha(x) \/ IsDigit(x) \/ x \in {43, 45, 46}

\* The netloc that urllib.parse.urlsplit finds in the full URL, for request_host:
\* leading control characters and spaces are stripped, tabs and line breaks
\* removed, the scheme cut off, and after '//' the netloc runs to the first '/',
\* '?' or '#'
UrlSplitNetloc(full) ==
    LET a == LStrip(full, 0..32)
        b == SelectSeq(a, LAMBDA x : x \notin {9, 10, 13})
        i == Find(b, {58})
        c == IF i >= 2 /\ IsAlpha(b[1]) /\ \A j \in 1..(i - 1) : IsSchemeChar(b[j])
             THEN SubSeq(b, i + 1, Len(b))
             ELSE b
    IN  IF Len(c) >= 2 /\ c[1] = 47 /\ c[2] = 47
        THEN LET rest == SubSeq(c, 3, Len(c))
                 d == Find(rest, {47, 63, 35})
             IN  IF d = 0 THEN rest ELSE SubSeq(rest, 1, d - 1)
        ELSE <<>>

\* The decimal value of a string of digits
DecimalValue(o) ==
    IF Len(o) = 1 THEN o[1] - 48
    ELSE IF Len(o) = 2 THEN (o[1] - 48) * 10 + (o[2] - 48)
    ELSE (o[1] - 48) * 100 + (o[2] - 48) * 10 + (o[3] - 48)

\* ipaddress.IPv4Address._parse_octet accepts the octet
OctetOk(o) ==
    /\ o # <<>>
    /\ \A i \in DOMAIN o : IsDigit(o[i])
    /\ Len(o) <= 3
    /\ (o = <<48>> \/ o[1] # 48)
    /\ DecimalValue(o) <= 255

\* ipaddress.IPv4Address(s) accepts the string
IsIPv4(s) ==
    /\ 47 \notin Elems(s)
    /\ s # <<>>
    /\ LET octets == Split(s, 46)
       IN  Len(octets) = 4 /\ \A i \in DOMAIN octets : OctetOk(octets[i])

\* ipaddress.IPv6Address._parse_hextet accepts the hextet
HextetOk(h) ==
    /\ \A i \in DOMAIN h : IsHexDigit(h[i])
    /\ Len(h) <= 4
    /\ h # <<>>

\* The rest of IPv6Address._ip_int_from_string, on the parts between the colons:
\* at most one '::', which may take in an empty first or last part, and hextets
\* elsewhere, eight in all when there is no '::'
IPv6PartsOk(parts) ==
    LET n == Len(parts)
        skips == {i \in 2..(n - 1) : parts[i] = <<>>}
    IN  /\ n <= 9
        /\ Cardinality(skips) <= 1
        /\ IF skips # {}
           THEN LET k == CHOOSE i \in skips : TRUE
                    hi == IF parts[1] = <<>> THEN k - 2 ELSE k - 1
                    lo == IF parts[n] = <<>> THEN n - k - 1 ELSE n - k
                IN  /\ parts[1] = <<>> => hi = 0
                    /\ parts[n] = <<>> => lo = 0
                    /\ 8 - (hi + lo) >= 1
                    /\ \A i \in 1..hi : HextetOk(parts[i])
                    /\ \A i \in (n - lo + 1)..n : HextetOk(parts[i])
           ELSE /\ n = 8
                /\ \A i \in 1..n : HextetOk(parts[i])

\* ipaddress.IPv6Address(s) accepts the string: no '/', a scope id after '%' that
\* is not empty and holds no '%', three parts or more, and a last part with a '.'
\* is an IPv4 address, which stands for two hextets
IsIPv6(s) ==
    /\ 47 \notin Elems(s)
    /\ LET p == Find(s, {37})
           addr == IF p = 0 THEN s ELSE SubSeq(s, 1, p - 1)
           scope == IF p = 0 THEN <<>> ELSE SubSeq(s, p + 1, Len(s))
       IN  /\ p # 0 => (scope # <<>> /\ 37 \notin Elems(scope))
           /\ addr # <<>>
           /\ LET parts == Split(addr, 58)
                  tailPart == parts[Len(parts)]
              IN  /\ Len(parts) >= 3
                  /\ IF 46 \in Elems(tailPart)
                     THEN /\ IsIPv4(tailPart)
                          /\ IPv6PartsOk(SubSeq(parts, 1, Len(parts) - 1) \o <<<<48>>, <<48>>>>)
                     ELSE IPv6PartsOk(parts)

\* urllib.parse._check_bracketed_host accepts what stands between '[' and ']': an
\* IPvFuture address 'v', hex digits, '.', one character or more; or else an IPv6
\* address
BracketedHostOk(h) ==
    IF h # <<>> /\ h[1] = 118
    THEN LET rest == Tail(h)
             k == Find(rest, {x \in 0..127 : ~IsHexDigit(x)})
         IN  /\ k >= 2
             /\ rest[k] = 46
             /\ k < Len(rest)
             /\ \A j \in (k + 1)..Len(rest) : rest[j] # 10
    ELSE ~IsIPv4(h) /\ IsIPv6(h)

\* urlsplit accepts the netloc: brackets come in pairs and hold an address; without
\* that it raises ValueError
NetlocOk(netloc) ==
    IF (91 \in Elems(netloc)) # (93 \in Elems(netloc)) THEN FALSE
    ELSE IF 91 \in Elems(netloc)
         THEN LET after == SubSeq(netloc, Find(netloc, {91}) + 1, Len(netloc))
                  j == Find(after, {93})
              IN  BracketedHostOk(IF j = 0 THEN after ELSE SubSeq(after, 1, j - 1))
    ELSE TRUE

\* request.Request(url, headers={}) returns a request: the unwrapped URL without its
\* fragment has a type, and request_host(self) can split the full URL. It raises
\* ValueError otherwise.
RequestAccepts(url) ==
    LET r == SplitTag(Unwrap(url))
    IN  HasType(r.url) /\ NetlocOk(UrlSplitNetloc(FullUrl(r)))

\* The URLs the two functions are called with: 'http://h/d', 'd', 'a#b:c',
\* '<URL:http://h/d>', 'URL:d', 'http://[::1]/d' and 'http://[h/d'
Urls ==
    {Codes(<<"h", "t", "t", "p", ":", "/", "/", "h", "/", "d">>),
     Codes(<<"d">>),
     Codes(<<"a", "#", "b", ":", "c">>),
     Codes(<<"<", "U", "R", "L", ":", "h", "t", "t", "p", ":", "/", "/", "h", "/", "d", ">">>),
     Codes(<<"U", "R", "L", ":", "d">>),
     Codes(<<"h", "t", "t", "p", ":", "/", "/", "[", ":", ":", "1", "]", "/", "d">>),
     Codes(<<"h", "t", "t", "p", ":", "/", "/", "[", "h", "/", "d">>)}

\* httpGet / httpDownload up to the try statement: urllibInit(), data = None
HttpCall(fn, decode, url) ==
    /\ call.pc \in {"idle", "done"}
    /\ LET init == UrllibInit
           c == [NoHttpCall EXCEPT !.fn = fn, !.decode = decode, !.url = url]
       IN  IF init = "ok"
           THEN /\ request_initialized' = TRUE
                /\ call' = [c EXCEPT !.pc = "open"]
           ELSE /\ request_initialized' = request_initialized
                /\ call' = [c EXCEPT !.pc = "done", !.failed = "init",
                                      !.outcome = "raised", !.ret = PyStr(<<init>>)]
    /\ UNCHANGED <<prefs, ssl_ctx, flagVars, webVars>>

HttpGetCall(decode, url) == HttpCall("httpGet", decode, url)

HttpDownloadCall(url) == HttpCall("httpDownload", FALSE, url)

\* request.Request(url, ...) raises ValueError inside the try statement (lines 81,
\* 103): urlopen is not called, the bare except clause logs, the function returns
RequestFail ==
    /\ call.pc = "open"
    /\ ~RequestAccepts(call.url)
    /\ call' = Except(call, "request", "ValueError")
    /\ UNCHANGED <<prefs, ssl_ctx, request_initialized, flagVars, webVars>>

\* request.urlopen(...) succeeds (lines 81, 103); httpGet sets data to '' or [],
\* httpDownload opens the local file
UrlOpenOk ==
    /\ call.pc = "open"
    /\ RequestAccepts(call.url)
    /\ call' = [call EXCEPT !.opens = @ + 1, !.pc = "read",
                            !.data = IF call.fn = "httpGet"
                                     THEN (IF call.decode THEN PyStr(<<>>) ELSE PyList(<<>>))
                                     ELSE @]
    /\ UNCHANGED <<prefs, ssl_ctx, request_initialized, flagVars, webVars>>

\* request.urlopen(...) raises: a URLError or anything else
UrlOpenFail(ex) ==
    /\ call.pc = "open"
    /\ RequestAccepts(call.url)
    /\ call' = Except([call EXCEPT !.opens = @ + 1], "open", ex)
    /\ UNCHANGED <<prefs, ssl_ctx, request_initialized, flagVars, webVars>>

\* httpDownload: open(path, 'wb') raises after the URL was opened (line 104)
LocalFileFail ==
    /\ call.pc = "open"
    /\ RequestAccepts(call.url)
    /\ call.fn = "httpDownload"
    /\ call' = Except([call EXCEPT !.opens = @ + 1], "file", "OSError")
    /\ UNCHANGED <<prefs, ssl_ctx, request_initialized, flagVars, webVars>>

\* The exit of "with open(path, 'wb') as localFile" (line 104) when an exception ex
\* leaves its body: the file is closed, and the bytes still in its buffer are
\* flushed. kept is the number of bytes that reach the file; when some do not, the
\* close raises OSError, which takes the place of ex.
CloseOnError(c, ex, kept) ==
    IF c.fn = "httpDownload"
    THEN [c |-> [c EXCEPT !.written = SubSeq(c.buffered, 1, kept)],
          ex |-> IF kept = Len(c.buffered) THEN ex ELSE "OSError"]
    ELSE [c |-> c, ex |-> ex]

\* The numbers of bytes that may reach the local file when it is closed
Kept(c) == IF c.fn = "httpDownload" THEN 0..Len(c.buffered) ELSE {0}

\* localFile.write(p) raises (line 109) and the with statement of line 104 is left.
\* The file object passes the bytes it holds and those of p on to the file system in
\* order, and raises when the file system refuses; kept is the number of bytes that
\* have reached the file by then or reach it when the file is closed, short of all.
WriteFail(c, p, kept) == [c EXCEPT !.written = SubSeq(c.buffered \o p, 1, kept)]

\* The numbers of bytes that may have reached the local file when write(p) fails
KeptOnWriteFail(c, p) == 0..(Len(c.buffered) + Len(p) - 1)

\* One pass of the loop with a non-empty block p (lines 88-92, 107-109); a failed
\* localFile.write(p) leaves the with statement
ReadBlock(p, writeOk, kept) ==
    /\ call.pc = "read"
    /\ call.nread < MaxBlocks
    /\ kept \in IF call.fn = "httpDownload" /\ ~writeOk THEN KeptOnWriteFail(call, p)
                ELSE {0}
    /\ LET c == [call EXCEPT !.nread = @ + 1, !.received = Append(@, p)]
       IN  call' =
             IF call.fn = "httpGet"
             THEN IF call.decode
                  THEN LET d == Utf8Decode(p)
                       IN  IF d.ok
                           THEN [c EXCEPT !.data = PyStr(c.data.val \o d.chars)]
                           ELSE Except(c, "decode", "UnicodeDecodeError")
                  ELSE [c EXCEPT !.data = PyList(c.data.val \o p)]
             ELSE IF writeOk
                  THEN [c EXCEPT !.buffered = @ \o p]
                  ELSE Except(WriteFail(c, p, kept), "write", "OSError")
    /\ UNCHANGED <<prefs, ssl_ctx, request_initialized, flagVars, webVars>>

\* read(block) returns nothing: the loop breaks. httpGet returns data (line 98).
\* httpDownload reaches return True (line 110), which first leaves the with
\* statement of line 104: the file is closed and its buffer flushed; when kept, the
\* number of bytes that reach the file, is not all of them, the close raises OSError,
\* the except clause logs and False is returned.
ReadEof(kept) ==
    /\ call.pc = "read"
    /\ kept \in Kept(call)
    /\ call' =
          IF call.fn = "httpGet"
          THEN [call EXCEPT !.pc = "done", !.outcome = "returned", !.ret = call.data]
          ELSE IF kept = Len(call.buffered)
               THEN [call EXCEPT !.pc = "done", !.outcome = "returned",
                                 !.written = call.buffered, !.ret = PyBool(TRUE)]
               ELSE Except([call EXCEPT !.written = SubSeq(call.buffered, 1, kept)],
                           "close", "OSError")
    /\ UNCHANGED <<prefs, ssl_ctx, request_initialized, flagVars, webVars>>

\* read(block) raises; httpDownload leaves the with statement of the local file
ReadFail(ex, kept) ==
    /\ call.pc = "read"
    /\ kept \in Kept(call)
    /\ LET x == CloseOnError(call, ex, kept)
       IN  call' = Except(x.c, "read", x.ex)
    /\ UNCHANGED <<prefs, ssl_ctx, request_initialized, flagVars, webVars>>

(***************************************************************************)
(* webview.py                                                              *)
(***************************************************************************)

\* str.encode() and bytes of a str in UTF-8, one character
EncodeChar(c) == IF c = EAcute THEN <<195, 169>> ELSE <<Ord(c)>>

RECURSIVE Utf8Encode(_)
\* str.encode(): the UTF-8 bytes of a string
Utf8Encode(chars) ==
    IF chars = <<>> THEN <<>> ELSE EncodeChar(Head(chars)) \o Utf8Encode(Tail(chars))

\* [a-zA-Z] of WINDOWS_PATH_PATTERN
IsAsciiLetter(c) ==
    \/ Ord(c) >= 65 /\ Ord(c) <= 90
    \/ Ord(c) >= 97 /\ Ord(c) <= 122

\* \w of ACTION_URL_PATTERN on a str: letters (of any script), digits, underscore
IsWordChar(c) ==
    \/ IsAsciiLetter(c)
    \/ Ord(c) >= 48 /\ Ord(c) <= 57
    \/ c = "_"
    \/ c = EAcute

\* The position of the first line break of s after position from, or Len(s) + 1:
\* where a '.*' that starts after from must stop
RECURSIVE LineEnd(_, _)
LineEnd(s, from) ==
    IF from >= Len(s) THEN Len(s) + 1
    ELSE IF s[from + 1] = "\n" THEN from + 1
    ELSE LineEnd(s, from + 1)

\* WINDOWS_PATH_PATTERN.match(path), line 36: '^/([a-zA-Z]\\:.*)' is a slash, a
\* letter, a backslash, a colon and the rest of the line; group(1) starts at the letter
WindowsPathMatch(path) ==
    IF /\ Len(path) >= 4
       /\ path[1] = "/"
       /\ IsAsciiLetter(path[2])
       /\ path[3] = "\\"
       /\ path[4] = ":"
    THEN [matched |-> TRUE, group |-> SubSeq(path, 2, LineEnd(path, 4) - 1)]
    ELSE [matched |-> FALSE, group |-> <<>>]

\* The literal part of ACTION_URL_PATTERN
ActionLiteral == <<"/", "a", "c", "t", "i", "o", "n", ".">>

\* The number of word characters that end s[1..n]
RECURSIVE WordRun(_, _)
WordRun(s, n) == IF n = 0 \/ ~IsWordChar(s[n]) THEN 0 ELSE 1 + WordRun(s, n - 1)

\* ACTION_URL_PATTERN.match(path), line 37: '.*/action\.(\w+)$'. match() anchors at
\* the start; '.' matches anything but a line break; '$' matches at the end of the
\* string and also just before a line break that ends the string.
ActionUrlMatch(path) ==
    LET n == Len(path)
        end == IF n > 0 /\ path[n] = "\n" THEN n - 1 ELSE n
        k == WordRun(path, end)
        start == end - k - Len(ActionLiteral)
    IN  IF /\ k >= 1
           /\ start >= 0
           /\ SubSeq(path, start + 1, start + Len(ActionLiteral)) = ActionLiteral
           /\ LineEnd(path, 0) > start
        THEN [matched |-> TRUE, group |-> SubSeq(path, end - k + 1, end)]
        ELSE [matched |-> FALSE, group |-> <<>>]

\* The content types of lines 126-137 and the default of Response.send
ImageSvg == <<"i", "m", "a", "g", "e", "/", "s", "v", "g", "+", "x", "m", "l">>
ImagePng == <<"i", "m", "a", "g", "e", "/", "p", "n", "g">>
ImageJpeg == <<"i", "m", "a", "g", "e", "/", "j", "p", "e", "g">>
TextCss == <<"t", "e", "x", "t", "/", "c", "s", "s">>
TextJavascript == <<"t", "e", "x", "t", "/", "j", "a", "v", "a", "s", "c", "r", "i", "p", "t">>
TextPlain == <<"t", "e", "x", "t", "/", "p", "l", "a", "i", "n">>
TextHtml == <<"t", "e", "x", "t", "/", "h", "t", "m", "l">>
ApplicationJson == <<"a", "p", "p", "l", "i", "c", "a", "t", "i", "o", "n", "/", "j", "s", "o", "n">>

\* lines 126-137: the content type from the lower-cased path
ContentTypeOf(file_path) ==
    IF EndsWith(file_path, <<".", "s", "v", "g">>) THEN ImageSvg
    ELSE IF EndsWith(file_path, <<".", "p", "n", "g">>) THEN ImagePng
    ELSE IF EndsWith(file_path, <<".", "j", "p", "g">>) THEN ImageJpeg
    ELSE IF EndsWith(file_path, <<".", "c", "s", "s">>) THEN TextCss
    ELSE IF EndsWith(file_path, <<".", "j", "s">>) THEN TextJavascript
    ELSE TextPlain

\* QWebEngineUrlRequestInfo's navigation types
NavTypes ==
    {"NavigationTypeLink", "NavigationTypeTyped", "NavigationTypeFormSubmitted",
     "NavigationTypeBackForward", "NavigationTypeReload", "NavigationTypeOther",
     "NavigationTypeRedirect"}

\* The URLs the interceptor is shown
UrlSchemes == {"extman", "file", "https"}
UrlHosts == {"", "host"}
UrlPaths == {<<"/", "C", "\\", ":", "/", "x">>,
             <<"/", "C", ":", "/", "x">>,
             <<"/", "x">>}

InterceptInfos == [navType : NavTypes, scheme : UrlSchemes, host : UrlHosts, path : UrlPaths]

\* A variant that filters on the scheme alone
InterceptRequestAnyNavigation(info) ==
    [url |-> [scheme |-> info.scheme, host |-> info.host, path |-> info.path],
     calls |-> IF info.scheme = "extman" THEN <<info>> ELSE <<>>]

\* UrlRequestInterceptor.interceptRequest, lines 47-59: the local copy of the URL
\* as it ends up, and the calls of owner.interseptLink with their argument
InterceptRequest(info) ==
    LET url == [scheme |-> info.scheme, host |-> info.host, path |-> info.path]
    IN  IF info.navType = "NavigationTypeLink"
        THEN LET m == WindowsPathMatch(url.path)
                 fixed == IF url.host = "" /\ url.scheme = "file" /\ m.matched
                          THEN [url EXCEPT !.path = m.group]
                          ELSE url
             IN  [url |-> fixed,
                  calls |-> IF fixed.scheme = "extman" THEN <<info>> ELSE <<>>]
        ELSE [url |-> url, calls |-> <<>>]

NoIntercept ==
    [info |-> [navType |-> "none", scheme |-> "", host |-> "", path |-> <<>>],
     url |-> [scheme |-> "", host |-> "", path |-> <<>>], calls |-> <<>>]

\* The web engine shows the interceptor a request
InterceptRequestCall(info) ==
    /\ LET r == InterceptRequest(info)
       IN  icpt' = [info |-> info, url |-> r.url, calls |-> r.calls]
    /\ UNCHANGED <<req, flagVars, httpVars>>

\* The pieces the request paths are put together from
PathChunks ==
    {<<"/">>,
     <<"/", "a", "c", "t", "i", "o", "n", ".">>,
     <<"r", "u", "n">>,
     <<"h", "t", "m", "l">>,
     <<".", "h", "t", "m", "l">>,
     <<".", "s", "v", "g">>,
     <<".", "P", "N", "G">>,
     <<".", "j", "p", "g">>,
     <<".", "c", "s", "s">>,
     <<".", "j", "s">>,
     <<"\n">>}

\* The number of pieces in a request path
MaxChunks == 3

RECURSIVE Flatten(_)
Flatten(ss) == IF ss = <<>> THEN <<>> ELSE Head(ss) \o Flatten(Tail(ss))

RequestPaths == {Flatten(cs) : cs \in ListsUpTo(PathChunks, MaxChunks)}

\* What the file system holds at the path: nothing, a regular file, a directory
FsKinds == {"missing", "file", "dir"}

\* The bytes of a file
FileContents == {<<>>, <<60, 97, 62>>}

\* The strings a request handler writes and the content types it sends with
WriteData == {<<"a">>, <<EAcute, "b">>}
SendTypes == {TextHtml, ApplicationJson}

\* The number of response.write() calls of a request handler
MaxWrites == 3

\* The number of response.send() calls of a request handler
MaxSends == 2

\* fs is what os.path.exists and open found, "unchecked" while they were not called
NoRequest ==
    [state |-> "none", path |-> <<>>, fs |-> "unchecked", bufOpen |-> FALSE, buf |-> <<>>,
     handled |-> <<>>, replies |-> <<>>, printed |-> FALSE, raised |-> FALSE,
     written |-> <<>>, sends |-> <<>>]

WebIdle ==
    /\ icpt = NoIntercept
    /\ req = NoRequest

\* Response.write, lines 69-70: the encoded data goes to the end of the buffer; a
\* QBuffer that is not open for writing takes nothing
ResponseWrite(r, data) ==
    IF r.bufOpen THEN [r EXCEPT !.buf = @ \o Utf8Encode(data)] ELSE r

\* Response.send, lines 72-75, called with args (no argument, or a content type):
\* content_type defaults to 'text/html'; seek(0), close(), request.reply(type, buffer)
ResponseSend(r, args) ==
    LET content_type == IF args = <<>> THEN TextHtml ELSE args[1]
    IN  [r EXCEPT !.bufOpen = FALSE,
                  !.replies = Append(@, [by |-> "Response.send",
                                         type |-> Utf8Encode(content_type),
                                         body |-> r.buf])]

\* SchemeHandler.requestStarted, lines 87-140, on a request for path, with what the
\* file system holds there (an existing directory makes open() raise)
RequestStarted(path, fs, content) ==
    LET r0 == [NoRequest EXCEPT !.state = "started", !.path = path, !.bufOpen = TRUE]
        action_match == ActionUrlMatch(path)
        action == IF action_match.matched THEN PyStr(action_match.group) ELSE PyNone
    IN  IF EndsWith(path, <<".", "h", "t", "m", "l">>) \/ (action # PyNone /\ action.val # <<>>)
        THEN [r0 EXCEPT !.handled = <<[path |-> path, action |-> action]>>]
        ELSE IF fs # "missing"
             THEN IF fs = "dir"
                  THEN [r0 EXCEPT !.fs = fs, !.raised = TRUE]
                  ELSE [r0 EXCEPT !.fs = fs, !.buf = content, !.bufOpen = FALSE,
                                  !.replies = <<[by |-> "requestStarted",
                                                 type |-> Utf8Encode(ContentTypeOf(Lower(path))),
                                                 body |-> content]>>]
             ELSE [r0 EXCEPT !.fs = fs, !.printed = TRUE]

\* The web engine hands the scheme handler a request
RequestStartedCall ==
    /\ req.state = "none"
    /\ \E path \in RequestPaths, fs \in FsKinds, content \in FileContents :
          req' = RequestStarted(path, fs, content)
    /\ UNCHANGED <<icpt, flagVars, httpVars>>

\* The request handler, in whatever thread it works, calls response.write(data)
HandlerWrite(data) ==
    /\ req.handled # <<>>
    /\ Len(req.written) < MaxWrites
    /\ req' = [ResponseWrite(req, data) EXCEPT !.written = Append(@, data)]
    /\ UNCHANGED <<icpt, flagVars, httpVars>>

\* The request handler calls response.send(), without an argument or with a content
\* type
HandlerSend(args) ==
    /\ req.handled # <<>>
    /\ Len(req.sends) < MaxSends
    /\ req' = [ResponseSend(req, args)
                 EXCEPT !.sends = Append(@, [args |-> args, nwritten |-> Len(req.written)])]
    /\ UNCHANGED <<icpt, flagVars, httpVars>>

(***************************************************************************)
(* Specifications                                                          *)
(***************************************************************************)

\* get_flags_database on every document of JsonInputs
InitDb == InitFlags(JsonInputs) /\ HttpIdle /\ WebIdle
NextDb == GetFlagsDatabaseCall
SpecDb == InitDb /\ [][NextDb]_vars

\* The dicts a caller gives a new package as its flags
OwnFlags == {<<>>, [k \in {"f1", "x"} |-> k = "x"]}

\* Callers that create packages, apply the predefined flags and edit the packages
InitPkgs == InitFlags(JsonSamples) /\ HttpIdle /\ WebIdle
NextPkgs ==
    \/ \E p \in Pkgs, t \in PkgTypes, n \in Names, own \in BOOLEAN, d \in OwnFlags :
          NewPackage(p, t, n, own, d)
    \/ \E p \in Pkgs : ApplyCall(p)
    \/ \E p \in Pkgs, k \in CallerFlags : CallerAddFlag(p, k)
    \/ \E p \in Pkgs, t \in PkgTypes, n \in Names : CallerSetKey(p, t, n)
    \/ GetFlagsDatabaseCall
SpecPkgs == InitPkgs /\ [][NextPkgs]_vars

\* Calls of httpGet and httpDownload, one after the other
InitHttpSpec == FlagsIdle /\ InitHttp /\ WebIdle
NextHttp ==
    \/ \E decode \in BOOLEAN, url \in Urls : HttpGetCall(decode, url)
    \/ \E url \in Urls : HttpDownloadCall(url)
    \/ RequestFail
    \/ UrlOpenOk
    \/ \E ex \in {"URLError", "OSError"} : UrlOpenFail(ex)
    \/ LocalFileFail
    \/ \E p \in Blocks, writeOk \in BOOLEAN :
          \E kept \in 0..(Len(call.buffered) + Len(p)) : ReadBlock(p, writeOk, kept)
    \/ \E kept \in Kept(call) : ReadEof(kept)
    \/ \E ex \in {"URLError", "OSError"}, kept \in Kept(call) : ReadFail(ex, kept)
SpecHttp == InitHttpSpec /\ [][NextHttp]_vars

\* The interceptor
InitWeb == FlagsIdle /\ HttpIdle /\ WebIdle
NextIntercept == \E info \in InterceptInfos : InterceptRequestCall(info)
SpecIntercept == InitWeb /\ [][NextIntercept]_vars

\* The scheme handler and the request handler, on one request
NextScheme ==
    \/ RequestStartedCall
    \/ \E data \in WriteData : HandlerWrite(data)
    \/ \E args \in {<<>>} \cup {<<ct>> : ct \in SendTypes} : HandlerSend(args)
SpecScheme == InitWeb /\ [][NextScheme]_vars

(***************************************************************************)
(* Properties                                                              *)
(***************************************************************************)

\* The lower-case forms of the names, and the types flags.json lists names under
LowerNames == {Lower(n) : n \in Names}
ListedTypes == {"Mod", "Macro"}

\* The key '<type>:<lower-case name>', written out
KeyOf(t, n) == TypeChars(t) \o <<":">> \o n

\* The flags under whose list of type t flags.json has a name whose lower case is n
Declared(t, n) == {f \in FlagIds : \E i \in 1..Len(json[f][t]) : Lower(json[f][t][i]) = n}

\* The cached database holds, key by key, exactly what flags.json declares
DatabaseIsDeclared ==
    /\ DOMAIN db = {KeyOf(x[1], x[2]) :
                        x \in {y \in ListedTypes \X LowerNames : Declared(y[1], y[2]) # {}}}
    /\ \A t \in ListedTypes, n \in LowerNames :
          KeyOf(t, n) \in DOMAIN db =>
              heap[db[KeyOf(t, n)]] = [f \in Declared(t, n) |-> TRUE]

\* C1: apply_predefined_flags(pkg) looks up '<type>:<lower-case name>' with Workbench
\* read as Mod; when the database has flags for the key, pkg.flags afterwards holds
\* each of them and every key it held before; when the database has no entry, pkg.flags
\* is the same object with the same content; the call returns pkg.
C1_ApplyMergesPredefinedFlags ==
    last.op = "apply" =>
        LET p == last.p
            pkg == pkgs[p]
            hb == last.heapBefore
            key == KeyOf(IF pkg.type = "Workbench" THEN "Mod" ELSE pkg.type, Lower(pkg.name))
        IN  /\ last.key = key
            /\ last.ret = p
            /\ key \in DOMAIN db =>
                  /\ pkg.flags # NoneRef
                  /\ \A k \in DOMAIN hb[db[key]] :
                        k \in DOMAIN heap[pkg.flags] /\ heap[pkg.flags][k] = hb[db[key]][k]
                  /\ last.flagsBefore # NoneRef =>
                        DOMAIN hb[last.flagsBefore] \subseteq DOMAIN heap[pkg.flags]
            /\ key \notin DOMAIN db =>
                  /\ pkg.flags = last.flagsBefore
                  /\ pkg.flags # NoneRef => heap[pkg.flags] = hb[pkg.flags]

\* C1 witness: a Workbench package whose flags held a key of its own has been merged
\* with an entry of the database
C1_Witness ==
    /\ last.op = "apply"
    /\ pkgs[last.p].type = "Workbench"
    /\ last.flags # EmptyListRef
    /\ last.flagsBefore # NoneRef
    /\ last.flagsBefore # last.flags
    /\ "x" \in DOMAIN last.heapBefore[last.flagsBefore]
    /\ "x" \notin DOMAIN last.heapBefore[last.flags]

\* C2: get_flags_database returns a map with a key '<type>:<lower-case name>' exactly
\* for the names flags.json lists, each carrying exactly the flags that list a name of
\* that lower-case form under that type.
C2_DatabaseMatchesJson == last.op = "get_flags_database" => DatabaseIsDeclared

\* C2 witness: two flags list names that differ in case only, a third name is listed
\* nowhere, and the database has been built
C2_Witness ==
    /\ last.op = "get_flags_database"
    /\ json["f1"].Mod = << <<"A", "b">> >>
    /\ json["f2"].Mod = << <<"a", "b">> >>
    /\ json["f1"].Macro = <<>>
    /\ json["f2"].Macro = << <<"a", "b">> >>
    /\ DOMAIN heap[db[KeyOf("Mod", <<"a", "b">>)]] = {"f1", "f2"}

\* C6: whatever the callers do, the cached database keeps exactly the flags that
\* flags.json declares, and a package that had no flags receives only those.
C6_DatabaseNeverChanges ==
    cached =>
        /\ DatabaseIsDeclared
        /\ (last.op = "apply" /\ last.flagsBefore = NoneRef /\ last.flags # EmptyListRef) =>
              \E t \in ListedTypes, n \in LowerNames :
                  /\ last.key = KeyOf(t, n)
                  /\ DOMAIN heap[pkgs[last.p].flags] = Declared(t, n)

\* C4: within one call the URL is opened at most once, and not at all when the
\* request could not be built; a call in which building the request, the open, a
\* read, the handling of a block or the closing of the local file has failed has
\* logged once and returned, with nothing left to run.
C4_NoRetry ==
    /\ call.opens <= 1
    /\ call.failed = "request" => call.opens = 0
    /\ call.failed \notin {"none", "init"} =>
          /\ call.pc = "done"
          /\ call.outcome = "returned"
          /\ Len(call.logs) = 1

\* C4 witness: a call whose second read failed has returned
C4_Witness ==
    /\ call.failed = "read"
    /\ call.nread = 1
    /\ call.opens = 1
    /\ call.outcome = "returned"

\* C7: a finished call has returned and has not raised; a failed call has logged and
\* returned None (httpGet) or False (httpDownload); httpDownload returns True only
\* with every block received written to the local file.
C7_NeverRaises ==
    call.pc = "done" =>
        /\ call.outcome = "returned"
        /\ call.failed # "none" =>
              /\ Len(call.logs) >= 1
              /\ call.ret = IF call.fn = "httpGet" THEN PyNone ELSE PyBool(FALSE)
        /\ (call.fn = "httpDownload" /\ call.ret = PyBool(TRUE)) =>
              call.written = Flatten(call.received)
        /\ (call.fn = "httpDownload" /\ call.failed = "close") =>
              call.ret = PyBool(FALSE)

\* C5: interceptRequest calls owner.interseptLink(info) once when the request is a
\* link navigation with scheme 'extman', and not at all otherwise.
C5_InterceptsExtmanLinks ==
    icpt.info.navType # "none" =>
        icpt.calls = IF icpt.info.navType = "NavigationTypeLink" /\ icpt.info.scheme = "extman"
                     THEN <<icpt.info>>
                     ELSE <<>>

\* C5 witness: a link navigation to an extman URL has been intercepted
C5_Witness ==
    /\ icpt.info.navType = "NavigationTypeLink"
    /\ icpt.info.scheme = "extman"
    /\ Len(icpt.calls) = 1

\* The replies to the request that requestStarted made itself
OwnReplies == {i \in 1..Len(req.replies) : req.replies[i].by = "requestStarted"}

\* C3: every request given to requestStarted is either handed to the request handler,
\* once, or replied to by the scheme handler, once.
C3_DispatchedOrAnswered ==
    req.state = "started" =>
        \/ Len(req.handled) = 1 /\ OwnReplies = {}
        \/ Len(req.handled) = 0 /\ Cardinality(OwnReplies) = 1

\* C8: a dispatched request is replied to by response.send() alone: one reply per
\* send, none by the scheme handler, each with the content type given to that send()
\* ('text/html' without one) and with all the data passed to response.write()
\* before that send(), in call order.
C8_SendCarriesWrites ==
    req.handled # <<>> =>
        /\ OwnReplies = {}
        /\ Len(req.replies) = Len(req.sends)
        /\ \A i \in 1..Len(req.replies) :
              /\ req.replies[i].type =
                    Utf8Encode(IF req.sends[i].args = <<>> THEN TextHtml ELSE req.sends[i].args[1])
              /\ req.replies[i].body =
                    Utf8Encode(Flatten(SubSeq(req.written, 1, req.sends[i].nwritten)))

\* The path ends with '/action.<name>', <name> being k word characters
EndsWithAction(path, k) ==
    /\ k >= 1
    /\ k + Len(ActionLiteral) <= Len(path)
    /\ \A i \in (Len(path) - k + 1)..Len(path) : IsWordChar(path[i])
    /\ SubSeq(path, Len(path) - k - Len(ActionLiteral) + 1, Len(path) - k) = ActionLiteral

\* The content type the extension of a lower-case path stands for
TypeByExtension(lower) ==
    CASE EndsWith(lower, <<".", "s", "v", "g">>) -> ImageSvg
      [] EndsWith(lower, <<".", "p", "n", "g">>) -> ImagePng
      [] EndsWith(lower, <<".", "j", "p", "g">>) -> ImageJpeg
      [] EndsWith(lower, <<".", "c", "s", "s">>) -> TextCss
      [] EndsWith(lower, <<".", "j", "s">>) -> TextJavascript
      [] OTHER -> TextPlain

\* C9: requestStarted dispatches exactly the paths that end with '.html' or with a
\* segment '/action.<name>', passing <name> as the action in the second case and None
\* otherwise; every other path is a file path, never dispatched, and replied to with
\* the content type of its extension when the file exists.
C9_DispatchByPath ==
    req.state = "started" =>
        LET isAction == \E k \in 1..Len(req.path) : EndsWithAction(req.path, k)
            dispatch == EndsWith(req.path, <<".", "h", "t", "m", "l">>) \/ isAction
        IN  /\ (req.handled # <<>>) <=> dispatch
            /\ req.handled # <<>> =>
                  /\ req.handled[1].path = req.path
                  /\ req.handled[1].action =
                        IF isAction
                        THEN LET k == CHOOSE j \in 1..Len(req.path) : EndsWithAction(req.path, j)
                             IN  PyStr(SubSeq(req.path, Len(req.path) - k + 1, Len(req.path)))
                        ELSE PyNone
            /\ (~dispatch /\ req.fs = "file") =>
                  /\ Len(req.replies) = 1
                  /\ req.replies[1].type = Utf8Encode(TypeByExtension(Lower(req.path)))

====
